---- MODULE Spec2Model ----
(***************************************************************************)
(* Authentication / session core and token-bucket rate limiter of the      *)
(* FinTrac backend.                                                        *)
(*                                                                         *)
(* Time is counted in ticks of 1/TicksPerSecond second.  JWT "exp" claims, *)
(* Redis TTLs and the rate limiter's int(now) are whole seconds; the       *)
(* database and datetime.now() see the tick.                               *)
(***************************************************************************)
EXTENDS Integers, Sequences, FiniteSets, TLC

\* ------------------------------------------------------------------ bounds
TicksPerSecond == 2
MaxTime == 3
MaxTokens == 3
MaxSessionRows == 3
MaxRlSeconds == 3
MaxGrants == 5
MaxOtps == 3
MaxDay == 4
MaxTx == 1

\* ------------------------------------------------- configuration constants
MAX_SESSIONS_PER_USER == 1
refresh_token_expire_seconds == 1
refresh_token_expire_long == 2
REDIS_CACHE_TTL == 2
ACCOUNT_DELETION_DAYS == 1
OTP_EXPIRY_MINUTES == 1

Users == {"u1"}
Identifiers == Users \cup {"nobody"}
Passwords == {"good", "bad"}
Devices == {"d1", "d2"}
AllDevices == Devices \cup {"d3"}

Requests == {"r1", "r2"}

Members == {"u1", "u2"}
Workers == {"w1", "w2", "w3"}
Amounts == {-1, 1, 2}
OriginalBalance == 10
NoWorker == "none"
NoCall == [pc |-> "idle", change_amount |-> 0, written |-> 0,
           overlapped |-> FALSE]

Emails == {"a@x.io", "b@x.io"}
NoUsername == "None"
Usernames == {NoUsername, "", "al"}
RegTables == {"user_preferences", "terms_acceptances", "streaks",
              "user_devices", "accounts", "otps"}

Capacities == {1, 2}
RefillRates == {1, 2}
Callers == {"c1", "c2"}

None == 0

NoTime == -1

NoRequest == [user |-> "none", device_id |-> "none", found |-> FALSE]

NoOtp == [user_id |-> "none", type |-> "none", expires_at |-> NoTime]

\* Account ids, account names and the balances a request may carry.  None in
\* an update stands for a field the request leaves unset.
AccountIds == {"a1", "a2"}
AccountNames == {"Main", "Cash"}
Balances == {0, 1}
NoName == "None"
NoBalance == -1
NoAccount == [user_id |-> "none", name |-> "", balance |-> 0]

\* Streak(user_id=...): the row register_user creates, with the defaults of
\* the model.  NoDay is a last_active_date of None, NoStreak a missing row.
NoDay == -2
NewStreak == [current_streak |-> 0, longest_streak |-> 0,
              last_active_date |-> NoDay]
NoStreak == [current_streak |-> -1, longest_streak |-> -1,
             last_active_date |-> NoDay]

\* TransactionType, the amounts a request may carry (gt=0) and the values
\* that stand for a field the request leaves unset.
TransactionTypes == {"Income", "Expense", "Transfer"}
TxAmounts == {1, 2}
NoAmount == 0
NoType == "None"
NoAccountId == "None"
NoTransaction == [account_id |-> "none", to_account_id |-> "none",
                  amount |-> 0, type |-> "none"]

NoStep == [pc |-> "idle", user |-> "none", device_id |-> "none",
           found |-> FALSE, refresh |-> 0, active |-> 0]

\* now               clock, in ticks
\* sessions          auth_sessions table, in insertion order
\* devices           user_devices table, keyed by <<user_id, device_id>>: the
\*                   row get_by_device_id returns, and how many rows carry the
\*                   pair
\* security_events   security_events table (append only)
\* last_login        users.last_login
\* tokens            the refresh tokens minted so far; a token's jti is its index
\* blacklist         Redis blacklist keys: jti -> tick at which the key expires
\* response          outcome of the last login_user or authenticated request
\* ever_bound        history: <<session row, jti>> pairs that were ever bound
\* blacklist_returned history: tokens for which blacklist_refresh_token returned
VARIABLES now, sessions, devices, security_events, last_login, tokens,
          blacklist, response, ever_bound, blacklist_returned

authVars == <<sessions, devices, security_events, last_login, tokens,
              blacklist, response, ever_bound, blacklist_returned>>

\* cache_state   cache_manager: "new", "initialized", or "unreachable" when
\*               initialize() failed and lifespan went on without Redis
\* lua_script    rate_limiter.lua_script is loaded (not None)
\* rl_config     capacity and refill_rate a route was registered with
\* bucket        the Redis key of one identifier, with the tick it expires at
\* pending       per caller: the int(now) it read, until its script call ends
\* grants        history: per second, the calls the script has allowed in it
\*               (a fail-open answer spends no token and is not counted)
\* delayed       history: a script call reached the store in a later second
\*               than the one its timestamp was read in
\* rl_result     what the last allow_request call returned or raised
VARIABLES cache_state, lua_script, rl_config, bucket, pending, grants,
          delayed, rl_result

rlVars == <<cache_state, lua_script, rl_config, bucket, pending, grants,
            delayed, rl_result>>

\* user_rows     users table: is_deleted and deleted_at of each user
VARIABLES user_rows

dataVars == <<user_rows>>

\* inflight      login_user requests between their device lookup and the rest
\*               of the handler: the device asked for and what the lookup found
VARIABLES inflight

\* reg_users     users table as register_user sees it: email and username of
\*               every row, in insertion order
\* reg_rows      rows register_user has created in each of the other tables
\* reg_response  outcome of the last register_user call, with its request
VARIABLES reg_users, reg_rows, reg_response

regVars == <<reg_users, reg_rows, reg_response>>

\* balance       accounts.balance of one account, as committed
\* row_lock      the update_balance call whose UPDATE holds the row's lock
\* calls         each update_balance call: where it is, its change_amount, the
\*               balance its UPDATE wrote, and (history) whether another
\*               call's UPDATE ran while this call was waiting to run its own
VARIABLES balance, row_lock, calls

balVars == <<balance, row_lock, calls>>

\* login_steps   login_user requests that run one committed store operation
\*               at a time: where each is, what its device lookup found, the
\*               refresh token it minted and the count it read
VARIABLES login_steps

stepVars == <<login_steps>>

\* refresh_token_expire   jwt_manager's lifetime of a refresh token, in seconds
VARIABLES refresh_token_expire

jwtVars == <<refresh_token_expire>>

\* otps             otps table: the row of each OTP id, NoOtp once deleted
\* otp_created      how many OTP rows were ever created (ids are never reused)
\* password_changes how often each member's hashed_password was rewritten
\* known_tokens     the tokens verify_password_reset_otp has returned
\* reset_result     outcome of the last reset_password call, with its token
VARIABLES otps, otp_created, password_changes, known_tokens, reset_result

otpVars == <<otps, otp_created, password_changes, known_tokens, reset_result>>

\* accounts         accounts table: the row of each account id, NoAccount if
\*                  there is none
\* opening_balance  the balance each account was created with
\* account_result   the last AccountService call and its status
VARIABLES accounts, opening_balance, account_result

acctVars == <<accounts, opening_balance, account_result>>

\* today    the current UTC date, counted in days
\* streaks  streaks table: the row of each member
VARIABLES today, streaks

streakVars == <<today, streaks>>

\* transactions  transactions table: the row of each transaction id,
\*               NoTransaction if there is none
\* tx_created    how many transaction rows were ever created
\* tx_result     the last TransactionService call and its status
VARIABLES transactions, tx_created, tx_result

txVars == <<transactions, tx_created, tx_result>>

exceptOtp == <<authVars, rlVars, dataVars, inflight, regVars, balVars,
               stepVars, jwtVars, acctVars, streakVars, txVars>>

exceptAcct == <<authVars, rlVars, dataVars, inflight, regVars, balVars,
                stepVars, jwtVars, otpVars, streakVars, txVars>>

exceptStreak == <<authVars, rlVars, dataVars, inflight, regVars, balVars,
                  stepVars, jwtVars, otpVars, acctVars, txVars>>

exceptTx == <<authVars, rlVars, dataVars, inflight, regVars, balVars, stepVars,
              jwtVars, otpVars, acctVars, streakVars>>

laterVars == <<stepVars, jwtVars, otpVars, acctVars, streakVars, txVars>>

otherVars == <<inflight, regVars, balVars, laterVars>>

nonRlVars == <<dataVars, otherVars>>

nonAuthVars == <<rlVars, nonRlVars>>

vars == <<now, authVars, rlVars, nonRlVars>>

\* ------------------------------------------------------------------- time
\* int(x) / timegm(): truncation of a tick count to whole seconds.
WholeSeconds(t) == t \div TicksPerSecond
SecondsToTicks(s) == s * TicksPerSecond

\* --------------------------------------------------------------- TokenCodec
\* _create_token: exp = now + expires_delta, encoded by PyJWT as whole seconds;
\* jti = uuid4().hex is fresh, modelled as the next index of the token table.
create_refresh_token(T, user_id, t) ==
    Append(T, [token_type |-> "refresh",
               user_id    |-> user_id,
               exp        |-> WholeSeconds(t) + refresh_token_expire])

\* jti / exp claim of a token string (the token is identified by its jti).
extract_jti(token) == token
extract_exp(T, token) == T[token].exp

\* jwt.decode raises ExpiredSignatureError when exp <= now.
TokenExpired(T, token, t) == SecondsToTicks(T[token].exp) <= t

\* cache_manager.exists on the blacklist key: the key exists until its TTL ends.
is_token_blacklisted(B, jti, t) == B[jti] # None /\ t < B[jti]

\* verify_token: the message of the raised error, or "ok".
verify_token(T, B, token, token_type, t) ==
    IF TokenExpired(T, token, t) THEN "Token has expired"
    ELSE IF T[token].token_type # token_type THEN "Invalid token type"
    ELSE IF token_type = "refresh" /\ is_token_blacklisted(B, token, t)
         THEN "Token has been revoked"
    ELSE "ok"

\* TTL computed by blacklist_refresh_token: int(exp - now) seconds.
BlacklistTtl(T, token, t) ==
    SecondsToTicks(WholeSeconds(SecondsToTicks(T[token].exp) - t))

\* blacklist_refresh_token: the blacklist after the call (set only if ttl > 0).
blacklist_refresh_token(T, B, token, t) ==
    IF BlacklistTtl(T, token, t) > 0
    THEN [B EXCEPT ![token] = t + BlacklistTtl(T, token, t)]
    ELSE B

\* ------------------------------------------------------------ SessionManager
IsLive(s, t) == s.is_active /\ s.expires_at > t

get_active_by_jti(S, jti, t) ==
    LET m == {i \in DOMAIN S : S[i].refresh_token_jti = jti /\ IsLive(S[i], t)}
    IN IF m = {} THEN None ELSE CHOOSE i \in m : TRUE

revoke(S, i, t) == [S EXCEPT ![i].is_active = FALSE, ![i].last_used_at = t]

touch(S, i, t) == [S EXCEPT ![i].last_used_at = t]

count_active_sessions(S, user_id, t) ==
    Cardinality({i \in DOMAIN S : S[i].user_id = user_id /\ IsLive(S[i], t)})

\* ORDER BY created_at ASC; rows created in the same tick keep insertion order.
OlderThan(S, k, i) ==
    \/ S[k].created_at < S[i].created_at
    \/ S[k].created_at = S[i].created_at /\ k < i

revoke_oldest_sessions_delete(S, user_id, limit) ==
    LET cand == {i \in DOMAIN S : S[i].user_id = user_id /\ S[i].is_active}
    IN SelectSeq(S, LAMBDA r :
          ~(\E i \in cand :
               /\ S[i] = r
               /\ Cardinality({k \in cand : OlderThan(S, k, i)}) < limit))
revoke_oldest_sessions(S, user_id, limit) ==
    LET cand == {i \in DOMAIN S : S[i].user_id = user_id /\ S[i].is_active}
        hit  == {i \in cand :
                    Cardinality({k \in cand : OlderThan(S, k, i)}) < limit}
    IN [i \in DOMAIN S |->
          IF i \in hit
          THEN [S[i] EXCEPT !.is_active = FALSE, !.refresh_token_jti = None]
          ELSE S[i]]

revoke_by_device_noop(S, user_id, device_id) == S
revoke_by_device(S, user_id, device_id) ==
    [i \in DOMAIN S |->
       IF S[i].user_id = user_id /\ S[i].device_id = device_id /\ S[i].is_active
       THEN [S[i] EXCEPT !.is_active = FALSE, !.refresh_token_jti = None]
       ELSE S[i]]

\* ---------------------------------------------------------------- devices
\* A user_devices row as register_user and login_user create it.
DeviceRow(last_login_at) ==
    [is_trusted |-> FALSE, last_login_at |-> last_login_at, rows |-> 1]

\* register_user stores the device the user registered from.
RegistrationDevice == "d1"

\* ------------------------------------------------------------------ init
InitStore ==
    /\ now = 0
    /\ sessions = <<>>
    /\ devices = [k \in {<<u, RegistrationDevice>> : u \in Users} |->
                    DeviceRow(NoTime)]
    /\ security_events = <<>>
    /\ last_login = [u \in Users |-> NoTime]
    /\ tokens = <<>>
    /\ blacklist = [j \in 1..MaxTokens |-> None]
    /\ response = [status |-> 0, message |-> ""]
    /\ ever_bound = {}
    /\ blacklist_returned = {}
    /\ cache_state = "new"
    /\ lua_script = FALSE
    /\ rl_config = [capacity |-> None, refill_rate |-> None]
    /\ bucket = [exists |-> FALSE, tokens |-> 0, last_refill |-> 0,
                 expires_at |-> 0]
    /\ pending = [c \in Callers |-> NoTime]
    /\ grants = [t \in 0..MaxRlSeconds |-> 0]
    /\ delayed = FALSE
    /\ rl_result = [kind |-> "none", allowed |-> FALSE, remaining |-> 0,
                    reset |-> 0]
    /\ user_rows = [u \in Users |-> [is_deleted |-> FALSE,
                                      deleted_at |-> NoTime]]
    /\ inflight = [r \in Requests |-> NoRequest]
    /\ login_steps = [r \in Requests |-> NoStep]
    /\ balance = OriginalBalance
    /\ row_lock = NoWorker
    /\ calls = [w \in Workers |-> NoCall]
    /\ otps = [k \in 1..MaxOtps |-> NoOtp]
    /\ otp_created = 0
    /\ password_changes = [u \in Members |-> 0]
    /\ known_tokens = {}
    /\ reset_result = [status |-> 0, user |-> "none", token |-> 0]
    /\ accounts = [a \in AccountIds |-> NoAccount]
    /\ opening_balance = [a \in AccountIds |-> 0]
    /\ account_result = [op |-> "none", user_id |-> "none",
                         account_id |-> "none", status |-> 0]
    /\ today = 0
    /\ streaks = [u \in Members |-> NewStreak]
    /\ transactions = [k \in 1..MaxTx |-> NoTransaction]
    /\ tx_created = 0
    /\ tx_result = [op |-> "none", status |-> 0]
    /\ reg_users = <<>>
    /\ reg_rows = [t \in RegTables |-> 0]
    /\ reg_response = [status |-> 0, message |-> "", request |-> <<>>]

\* JWTManager.__init__ takes the token lifetimes from the settings.
Init == InitStore /\ refresh_token_expire = refresh_token_expire_seconds

\* The clock advances by one tick.
Tick ==
    /\ now < MaxTime
    /\ now' = now + 1
    /\ UNCHANGED <<authVars, nonAuthVars>>

\* The clock advances to the next whole second.  Every comparison of the
\* session logic is between a whole-second expiry and the clock, so a run
\* observed at whole seconds shows every outcome of that logic.
TickSecond ==
    /\ now + TicksPerSecond <= MaxTime
    /\ now' = SecondsToTicks(WholeSeconds(now) + 1)
    /\ UNCHANGED <<authVars, nonAuthVars>>

\* ---------------------------------------------------------------- AuthFlow
Outcome(status, message) == [status |-> status, message |-> message]

\* repository.get_by_email / get_by_username
get_user(identifier) == IF identifier \in Users THEN identifier ELSE "none"

verify_password(user, password) == password = "good"

\* The text of exc_details.http_400_signin_credentials_details() is not part of
\* the sources at hand: it is either the generic text or some other text.
SigninCredentialsDetails ==
    {"Invalid email/username or password", "signin credentials details"}

\* timedelta(days = d), with the day scaled to one second of the model clock.
timedelta_days(d) == SecondsToTicks(d)

\* check_deleted_user: the message of the exception raised, or "ok" when the
\* function returns without raising.
check_deleted_user(user, t) ==
    IF user.is_deleted /\ user.deleted_at # NoTime
    THEN IF (user.deleted_at + timedelta_days(ACCOUNT_DELETION_DAYS)) - t <= 0
         THEN "User account permanently deleted"
         ELSE "User account deleted. You can recover your account"
    ELSE "ok"

\* login_user up to the password check: the outcome for the given credentials.
login_outcome(identifier, password, m) ==
    LET user == get_user(identifier) IN
    IF user = "none"
    THEN Outcome(401, "Invalid email/username or password")
    ELSE IF user_rows[user].is_deleted
            /\ check_deleted_user(user_rows[user], now) # "ok"
    THEN Outcome(403, check_deleted_user(user_rows[user], now))
    ELSE IF ~verify_password(user, password)
    THEN Outcome(400, m)
    ELSE Outcome(200, "Login successful")

\* Cap enforcement of login_user: the session table after eviction.
enforce_cap(S, user_id, t) ==
    LET active == count_active_sessions(S, user_id, t)
    IN IF active >= MAX_SESSIONS_PER_USER
       THEN revoke_oldest_sessions(S, user_id,
                                   (active + 1) - MAX_SESSIONS_PER_USER)
       ELSE S

\* Device handling of login_user: the device table after it.  found is what
\* get_by_device_id returned to this request.
login_device(D, key, found, t) ==
    IF ~found
    THEN [k \in DOMAIN D \cup {key} |->
            IF k = key
            THEN IF key \in DOMAIN D
                 THEN [D[key] EXCEPT !.rows = @ + 1]
                 ELSE DeviceRow(NoTime)
            ELSE D[k]]
    ELSE [D EXCEPT ![key].last_login_at = t]

\* The new_device_login event login_user records for a device it created.
login_device_events_always(E, user, found) ==
    Append(E, [user_id |-> user, event_type |-> "new_device_login",
               evicted_sessions |-> 0])
login_device_events(E, user, found) ==
    IF ~found
    THEN Append(E, [user_id |-> user, event_type |-> "new_device_login",
                    evicted_sessions |-> 0])
    ELSE E

\* requires_device_verification = not device.is_trusted
requires_device_verification(D, key) == ~D[key].is_trusted

\* After it has created a device, login_user holds the alert mail schema in
\* "data"; the eviction branch then reads data.context, which that schema does
\* not have, and the request ends in an AttributeError.
login_raises(S, user, device_id, found, t) ==
    /\ ~found
    /\ count_active_sessions(revoke_by_device(S, user, device_id), user, t)
          >= MAX_SESSIONS_PER_USER

\* login_user from the device lookup on, for a request whose lookup returned
\* found.  Every repository call commits, so what was written before the
\* AttributeError stays written.
login_complete(user, device_id, found) ==
    LET key     == <<user, device_id>>
        D1      == login_device(devices, key, found, now)
        E1      == login_device_events(security_events, user, found)
        S1      == revoke_by_device(sessions, user, device_id)
        T1      == create_refresh_token(tokens, user, now)
        refresh == Len(T1)
        active  == count_active_sessions(S1, user, now)
        excess  == (active + 1) - MAX_SESSIONS_PER_USER
        S2      == enforce_cap(S1, user, now)
        E2      == IF active >= MAX_SESSIONS_PER_USER
                   THEN Append(E1, [user_id |-> user,
                                    event_type |-> "session_invalidated",
                                    evicted_sessions |-> excess])
                   ELSE E1
    IN
    IF login_raises(sessions, user, device_id, found, now)
    THEN /\ devices' = D1
         /\ security_events' = E1
         /\ sessions' = S2
         /\ UNCHANGED <<now, last_login, tokens, blacklist, ever_bound,
                        blacklist_returned>>
    ELSE /\ Len(tokens) < MaxTokens
         /\ Len(sessions) < MaxSessionRows
         /\ devices' = D1
         /\ tokens' = T1
         /\ sessions' = Append(S2, [user_id           |-> user,
                                    device_id         |-> device_id,
                                    refresh_token_jti |-> extract_jti(refresh),
                                    is_active         |-> TRUE,
                                    expires_at        |->
                                        SecondsToTicks(extract_exp(T1, refresh)),
                                    last_used_at      |-> NoTime,
                                    created_at        |-> now])
         /\ security_events' = E2
         /\ last_login' = [last_login EXCEPT ![user] = now]
         /\ ever_bound' = ever_bound \cup {<<Len(sessions) + 1, refresh>>}
         /\ UNCHANGED <<now, blacklist, blacklist_returned>>

login_user(identifier, password, device_id) ==
    LET user == get_user(identifier)
        out  == login_outcome(identifier, password, "")
    IN
    IF out.status # 200 THEN
        UNCHANGED <<now, sessions, devices, security_events, last_login,
                    tokens, blacklist, ever_bound, blacklist_returned>>
    ELSE
        login_complete(user, device_id, <<user, device_id>> \in DOMAIN devices)

\* What the caller of login_user gets: the outcome of the credential checks,
\* or 500 when the request raised after them.
login_result(identifier, password, device_id, m) ==
    LET out == login_outcome(identifier, password, m)
        key == <<get_user(identifier), device_id>>
    IN IF out.status = 200
          /\ login_raises(sessions, key[1], device_id, key \in DOMAIN devices,
                          now)
       THEN Outcome(500, "AttributeError")
       ELSE out

\* refresh_tokens up to the minting of tokens: the outcome for a token.
refresh_outcome_jwt_only(S, T, B, token, t) ==
    LET v == verify_token(T, B, token, "refresh", t)
    IN IF v # "ok" THEN Outcome(401, v)
       ELSE Outcome(200, "Token refreshed successfully")
refresh_outcome(S, T, B, token, t) ==
    LET i == get_active_by_jti(S, extract_jti(token), t)
        v == verify_token(T, B, token, "refresh", t)
    IN IF i = None
       THEN Outcome(401, "Invalid or expired refresh token")
       ELSE IF ~S[i].is_active \/ S[i].expires_at <= t
       THEN Outcome(401, "Refresh token session expired or revoked")
       ELSE IF v # "ok" THEN Outcome(401, v)
       ELSE Outcome(200, "Token refreshed successfully")

\* The session row after a successful refresh: on rotation the new jti is
\* stored, then touch() stamps last_used_at and commits.
refresh_session_keep_jti(S, i, rotate, new, t) == touch(S, i, t)
refresh_session(S, i, rotate, new, t) ==
    IF rotate
    THEN touch([S EXCEPT ![i].refresh_token_jti = extract_jti(new)], i, t)
    ELSE touch(S, i, t)

\* refresh_tokens as a function of the stored state: the outcome, the refresh
\* token returned, and the token and session tables the call leaves behind.
refresh_effect(S, T, B, token, rotate, t) ==
    LET i   == get_active_by_jti(S, extract_jti(token), t)
        out == refresh_outcome(S, T, B, token, t)
        T1  == create_refresh_token(T, T[token].user_id, t)
        new == Len(T1)
    IN IF out.status # 200 \/ i = None
       THEN [outcome |-> out, refresh_token |-> None, tokens |-> T,
             sessions |-> S]
       ELSE [outcome       |-> out,
             refresh_token |-> IF rotate THEN new ELSE token,
             tokens        |-> IF rotate THEN T1 ELSE T,
             sessions      |-> refresh_session(S, i, rotate, new, t)]

refresh_tokens(token, rotate) ==
    LET e == refresh_effect(sessions, tokens, blacklist, token, rotate, now)
        i == get_active_by_jti(sessions, extract_jti(token), now)
    IN
    /\ (rotate /\ e.outcome.status = 200) => Len(tokens) < MaxTokens
    /\ tokens' = e.tokens
    /\ sessions' = e.sessions
    /\ ever_bound' = IF e.tokens # tokens
                     THEN ever_bound \cup {<<i, e.refresh_token>>}
                     ELSE ever_bound
    /\ UNCHANGED <<now, devices, security_events, last_login, blacklist,
                   response, blacklist_returned>>

\* logout_user: 200, or 401 when blacklist_refresh_token cannot decode the token.
logout_outcome(T, token, t) ==
    IF TokenExpired(T, token, t)
    THEN Outcome(401, "Invalid token")
    ELSE Outcome(200, "Logout successful")

\* The session table after logout_user's lookup and revoke.
logout_session_keep(S, token, t) == S
logout_session(S, token, t) ==
    LET i == get_active_by_jti(S, extract_jti(token), t)
    IN IF i # None THEN revoke(S, i, t) ELSE S

logout_user(token) ==
    /\ sessions' = logout_session(sessions, token, now)
    /\ IF logout_outcome(tokens, token, now).status # 200
       THEN UNCHANGED <<blacklist, blacklist_returned>>
       ELSE /\ blacklist' = blacklist_refresh_token(tokens, blacklist, token, now)
            /\ blacklist_returned' = blacklist_returned \cup {token}
    /\ UNCHANGED <<now, devices, security_events, last_login, tokens,
                   response, ever_bound>>

\* _create_token gives every token its own uuid4 jti: the access token issued
\* with refresh token n carries a jti that no refresh token carries.
access_jti(token) == 0 - token

\* get_current_active_user, from the verified access token's payload: the
\* session lookup by the token's jti, then touch.
get_current_active_user_outcome(S, jti, t) ==
    IF get_active_by_jti(S, jti, t) = None
    THEN Outcome(401, "Session expired or revoked")
    ELSE Outcome(200, "ok")

get_current_active_user_session(S, jti, t) ==
    LET i == get_active_by_jti(S, jti, t)
    IN IF i = None THEN S ELSE touch(S, i, t)

get_current_active_user(token) ==
    /\ response' = get_current_active_user_outcome(sessions, access_jti(token),
                                                    now)
    /\ sessions' = get_current_active_user_session(sessions, access_jti(token),
                                                   now)
    /\ UNCHANGED <<now, devices, security_events, last_login, tokens,
                   blacklist, ever_bound, blacklist_returned>>

\* A login whose outcome nobody records.
Login == \E id \in Identifiers, pw \in Passwords, d \in Devices :
            login_user(id, pw, d) /\ UNCHANGED <<response, nonAuthVars>>

\* A login from any of three devices, one more than Login draws from.
LoginAnyDevice == \E id \in Identifiers, pw \in Passwords, d \in AllDevices :
            login_user(id, pw, d) /\ UNCHANGED <<response, nonAuthVars>>

\* A login whose caller keeps the outcome (status code and message).
LoginCall == \E id \in Identifiers, pw \in Passwords, d \in Devices,
                m \in SigninCredentialsDetails :
            /\ login_user(id, pw, d)
            /\ response' = login_result(id, pw, d, m)
            /\ UNCHANGED nonAuthVars
Refresh == \E tok \in DOMAIN tokens, rotate \in BOOLEAN :
            refresh_tokens(tok, rotate) /\ UNCHANGED nonAuthVars
Logout == \E tok \in DOMAIN tokens : logout_user(tok) /\ UNCHANGED nonAuthVars

Next == TickSecond \/ Login \/ Refresh \/ Logout

Spec == Init /\ [][Next]_vars

\* The session operations together with requests that carry an access token.
AuthenticatedRequest == \E tok \in DOMAIN tokens :
                            get_current_active_user(tok) /\ UNCHANGED nonAuthVars

NextSessions == Next \/ AuthenticatedRequest

SpecSessions == Init /\ [][NextSessions]_vars

\* login_user up to the device lookup: the credential checks, then
\* get_by_device_id.  The handler awaits between the lookup and the insert,
\* so another request can run in between.
login_lookup(r, identifier, password, device_id) ==
    /\ inflight[r] = NoRequest
    /\ login_outcome(identifier, password, "").status = 200
    /\ inflight' = [inflight EXCEPT ![r] =
                       [user      |-> get_user(identifier),
                        device_id |-> device_id,
                        found     |-> <<get_user(identifier), device_id>>
                                         \in DOMAIN devices]]
    /\ UNCHANGED <<now, authVars, rlVars, dataVars, regVars, balVars,
                   laterVars>>

\* The rest of login_user, with what its lookup returned.
login_finish(r) ==
    /\ inflight[r] # NoRequest
    /\ login_complete(inflight[r].user, inflight[r].device_id,
                      inflight[r].found)
    /\ inflight' = [inflight EXCEPT ![r] = NoRequest]
    /\ UNCHANGED <<response, rlVars, dataVars, regVars, balVars, laterVars>>

LoginLookup == \E r \in Requests, id \in Identifiers, pw \in Passwords,
                  d \in Devices : login_lookup(r, id, pw, d)

LoginFinish == \E r \in Requests : login_finish(r)

\* Two login_user requests running concurrently.
NextConcurrent == TickSecond \/ LoginLookup \/ LoginFinish

SpecConcurrent == Init /\ [][NextConcurrent]_vars

\* login_user, one committed store operation per step.  What a step leaves
\* unchanged of the tables login_user writes:
stepOthers == <<rlVars, dataVars, inflight, regVars, balVars, jwtVars, otpVars,
                acctVars, streakVars, txVars>>

\* The credential checks and the device handling (lookup, create or update).
login_step_device(r, identifier, password, device_id) ==
    LET user  == get_user(identifier)
        key   == <<user, device_id>>
        found == key \in DOMAIN devices
    IN
    /\ login_steps[r].pc = "idle"
    /\ login_outcome(identifier, password, "").status = 200
    /\ devices' = login_device(devices, key, found, now)
    /\ security_events' = login_device_events(security_events, user, found)
    /\ login_steps' = [login_steps EXCEPT ![r] =
                          [NoStep EXCEPT !.pc = "device", !.user = user,
                                         !.device_id = device_id,
                                         !.found = found]]
    /\ UNCHANGED <<now, sessions, last_login, tokens, blacklist, response,
                   ever_bound, blacklist_returned, stepOthers>>

\* auth_session_repo.revoke_by_device
login_step_revoke_by_device(r) ==
    /\ login_steps[r].pc = "device"
    /\ sessions' = revoke_by_device(sessions, login_steps[r].user,
                                    login_steps[r].device_id)
    /\ login_steps' = [login_steps EXCEPT ![r].pc = "revoked"]
    /\ UNCHANGED <<now, devices, security_events, last_login, tokens,
                   blacklist, response, ever_bound, blacklist_returned,
                   stepOthers>>

\* user.tokens, then auth_session_repo.count_active_sessions
login_step_count(r) ==
    /\ login_steps[r].pc = "revoked"
    /\ Len(tokens) < MaxTokens
    /\ tokens' = create_refresh_token(tokens, login_steps[r].user, now)
    /\ login_steps' = [login_steps EXCEPT
                          ![r].pc = "counted",
                          ![r].refresh = Len(tokens'),
                          ![r].active = count_active_sessions(
                                            sessions, login_steps[r].user, now)]
    /\ UNCHANGED <<now, sessions, devices, security_events, last_login,
                   blacklist, response, ever_bound, blacklist_returned,
                   stepOthers>>

\* auth_session_repo.revoke_oldest_sessions and the session_invalidated
\* event; the request that created its device raises while it builds the
\* event and ends there.
login_step_evict(r) ==
    LET q      == login_steps[r]
        excess == (q.active + 1) - MAX_SESSIONS_PER_USER
    IN
    /\ q.pc = "counted"
    /\ q.active >= MAX_SESSIONS_PER_USER
    /\ sessions' = revoke_oldest_sessions(sessions, q.user, excess)
    /\ IF q.found
       THEN /\ security_events' =
                  Append(security_events,
                         [user_id |-> q.user,
                          event_type |-> "session_invalidated",
                          evicted_sessions |-> excess])
            /\ login_steps' = [login_steps EXCEPT ![r].pc = "evicted"]
       ELSE /\ UNCHANGED security_events
            /\ login_steps' = [login_steps EXCEPT ![r] = NoStep]
    /\ UNCHANGED <<now, devices, last_login, tokens, blacklist, response,
                   ever_bound, blacklist_returned, stepOthers>>

\* auth_session_repo.create and update_last_login
login_step_insert(r) ==
    LET q == login_steps[r] IN
    /\ \/ q.pc = "evicted"
       \/ q.pc = "counted" /\ q.active < MAX_SESSIONS_PER_USER
    /\ Len(sessions) < MaxSessionRows
    /\ sessions' = Append(sessions,
                          [user_id           |-> q.user,
                           device_id         |-> q.device_id,
                           refresh_token_jti |-> extract_jti(q.refresh),
                           is_active         |-> TRUE,
                           expires_at        |->
                               SecondsToTicks(extract_exp(tokens, q.refresh)),
                           last_used_at      |-> NoTime,
                           created_at        |-> now])
    /\ last_login' = [last_login EXCEPT ![q.user] = now]
    /\ ever_bound' = ever_bound \cup {<<Len(sessions) + 1, q.refresh>>}
    /\ login_steps' = [login_steps EXCEPT ![r] = NoStep]
    /\ UNCHANGED <<now, devices, security_events, tokens, blacklist,
                   response, blacklist_returned, stepOthers>>

LoginStepDevice == \E r \in Requests, id \in Identifiers, pw \in Passwords,
                      d \in Devices : login_step_device(r, id, pw, d)

LoginStepRevokeByDevice == \E r \in Requests : login_step_revoke_by_device(r)

LoginStepCount == \E r \in Requests : login_step_count(r)

LoginStepEvict == \E r \in Requests : login_step_evict(r)

LoginStepInsert == \E r \in Requests : login_step_insert(r)

\* Two login_user requests interleaved at their store operations.
NextInterleaved ==
    \/ TickSecond
    \/ LoginStepDevice
    \/ LoginStepRevokeByDevice
    \/ LoginStepCount
    \/ LoginStepEvict
    \/ LoginStepInsert

SpecInterleaved == Init /\ [][NextInterleaved]_vars

\* ----------------------------------------------------------- password reset
\* timedelta(minutes=m) on the model clock, one model second per minute.
timedelta_minutes(m) == SecondsToTicks(m)

\* OTPRepository.create_otp: the user's OTPs of the type are deleted and a new
\* row with a fresh id is stored.
create_otp(O, id, user_id, otp_type, t) ==
    [k \in DOMAIN O |->
        IF k = id
        THEN [user_id    |-> user_id,
              type       |-> otp_type,
              expires_at |-> t + timedelta_minutes(OTP_EXPIRY_MINUTES)]
        ELSE IF O[k].user_id = user_id /\ O[k].type = otp_type
        THEN NoOtp
        ELSE O[k]]

\* OTPRepository.get_valid_otp; the code mailed for an OTP is modelled by the
\* OTP's id.  None when no unexpired OTP of the user matches.
get_valid_otp(O, user_id, code, otp_type, t) ==
    IF /\ O[code].user_id = user_id
       /\ O[code].type = otp_type
       /\ O[code].expires_at > t
    THEN code
    ELSE None

\* forgot_password for an existing user.
forgot_password(u) ==
    /\ otp_created < MaxOtps
    /\ otp_created' = otp_created + 1
    /\ otps' = create_otp(otps, otp_created + 1, u, "password_reset", now)
    /\ UNCHANGED <<password_changes, known_tokens, reset_result>>

\* verify_password_reset_otp: returns otp.id as the token, or raises 400.
verify_password_reset_otp(u, code) ==
    LET otp == get_valid_otp(otps, u, code, "password_reset", now) IN
    /\ known_tokens' = IF otp = None THEN known_tokens
                       ELSE known_tokens \cup {otp}
    /\ UNCHANGED <<otps, otp_created, password_changes, reset_result>>

\* reset_password up to the password change: 400, or 200.
reset_password_outcome(O, u, token) ==
    IF O[token] = NoOtp \/ O[token].user_id # u
                       \/ O[token].type # "password_reset"
    THEN Outcome(400, "Invalid password reset token")
    ELSE Outcome(200, "Password has been reset successfully proceed to login")

\* reset_password: set_password and update, then the OTP row is deleted.
reset_password(u, token) ==
    LET out == reset_password_outcome(otps, u, token) IN
    /\ reset_result' = [status |-> out.status, user |-> u, token |-> token]
    /\ password_changes' = IF out.status = 200
                           THEN [password_changes EXCEPT ![u] = @ + 1]
                           ELSE password_changes
    /\ otps' = IF out.status = 200 THEN [otps EXCEPT ![token] = NoOtp]
               ELSE otps
    /\ UNCHANGED <<otp_created, known_tokens>>

ForgotPassword == \E u \in Members :
                     forgot_password(u) /\ UNCHANGED <<now, exceptOtp>>

VerifyPasswordResetOtp == \E u \in Members, code \in 1..MaxOtps :
                             /\ verify_password_reset_otp(u, code)
                             /\ UNCHANGED <<now, exceptOtp>>

ResetPassword == \E u \in Members, token \in known_tokens :
                    reset_password(u, token) /\ UNCHANGED <<now, exceptOtp>>

NextReset ==
    TickSecond \/ ForgotPassword \/ VerifyPasswordResetOtp \/ ResetPassword

SpecReset == Init /\ [][NextReset]_vars

\* ------------------------------------------------------------ AccountService
AccountResult(op, user_id, account_id, status) ==
    [op |-> op, user_id |-> user_id, account_id |-> account_id,
     status |-> status]

\* `not account or account.user_id != user_id` is false: the row exists and
\* belongs to the caller.
owned_by_anyone(account, user_id) == account # NoAccount
owned_by(account, user_id) == account # NoAccount /\ account.user_id = user_id

\* create_account: the new row gets a fresh id and the caller as its owner.
create_account(user_id, account_id, name, bal) ==
    /\ accounts[account_id] = NoAccount
    /\ accounts' = [accounts EXCEPT ![account_id] =
                       [user_id |-> user_id, name |-> name,
                        balance |-> bal]]
    /\ opening_balance' = [opening_balance EXCEPT ![account_id] = bal]
    /\ account_result' = AccountResult("create", user_id, account_id, 200)

get_account_by_id(user_id, account_id) ==
    /\ account_result' =
          AccountResult("get", user_id, account_id,
                        IF owned_by(accounts[account_id], user_id)
                        THEN 200 ELSE 404)
    /\ UNCHANGED <<accounts, opening_balance>>

\* BaseRepository.update sets the fields the request carries.
update(row, name, bal) ==
    [row EXCEPT !.name = IF name = NoName THEN @ ELSE name,
                !.balance = IF bal = NoBalance THEN @ ELSE bal]

\* update_account: 404 for a row of another user and for an unknown
\* currency_code, otherwise the row is updated.
update_account_status(A, user_id, account_id, currency_found) ==
    IF ~owned_by(A[account_id], user_id) THEN 404
    ELSE IF ~currency_found THEN 404
    ELSE 200

update_account(user_id, account_id, name, bal, currency_found) ==
    LET status == update_account_status(accounts, user_id, account_id,
                                        currency_found)
    IN
    /\ account_result' = AccountResult("update", user_id, account_id, status)
    /\ accounts' = IF status = 200
                   THEN [accounts EXCEPT ![account_id] =
                           update(@, name, bal)]
                   ELSE accounts
    /\ UNCHANGED opening_balance

\* AccountRepository.delete_for_user: the row is selected by id and user_id
\* and deleted if there is one.
delete_for_user(A, user_id, account_id) ==
    IF A[account_id] # NoAccount /\ A[account_id].user_id = user_id
    THEN [deleted |-> TRUE, accounts |-> [A EXCEPT ![account_id] = NoAccount]]
    ELSE [deleted |-> FALSE, accounts |-> A]

delete_account(user_id, account_id) ==
    LET res == delete_for_user(accounts, user_id, account_id)
    IN
    /\ account_result' = AccountResult("delete", user_id, account_id,
                                       IF res.deleted THEN 200 ELSE 404)
    /\ accounts' = res.accounts
    /\ UNCHANGED opening_balance

CreateAccount ==
    \E user_id \in Members, account_id \in AccountIds,
       name \in AccountNames, bal \in Balances :
        /\ create_account(user_id, account_id, name, bal)
        /\ UNCHANGED <<now, exceptAcct>>

GetAccountById ==
    \E user_id \in Members, account_id \in AccountIds :
        /\ get_account_by_id(user_id, account_id)
        /\ UNCHANGED <<now, exceptAcct>>

UpdateAccount ==
    \E user_id \in Members, account_id \in AccountIds,
       name \in AccountNames \cup {NoName},
       bal \in Balances \cup {NoBalance}, currency_found \in BOOLEAN :
        /\ update_account(user_id, account_id, name, bal, currency_found)
        /\ UNCHANGED <<now, exceptAcct>>

DeleteAccount ==
    \E user_id \in Members, account_id \in AccountIds :
        /\ delete_account(user_id, account_id)
        /\ UNCHANGED <<now, exceptAcct>>

NextAccounts == CreateAccount \/ GetAccountById \/ UpdateAccount
                   \/ DeleteAccount

SpecAccounts == Init /\ [][NextAccounts]_vars

\* ---------------------------------------------------------- StreakRepository
\* increment_streak on the row of a user, on the date `day`.
increment_streak(streak, day) ==
    LET yesterday == day - 1
        last_active == streak.last_active_date
    IN
    IF streak = NoStreak
    THEN [current_streak |-> 1, longest_streak |-> 1,
          last_active_date |-> day]
    ELSE IF last_active # NoDay /\ last_active = day
    THEN streak
    ELSE IF last_active # NoDay /\ last_active = yesterday
    THEN [current_streak |-> streak.current_streak + 1,
          longest_streak |->
              IF streak.current_streak + 1 > streak.longest_streak
              THEN streak.current_streak + 1
              ELSE streak.longest_streak,
          last_active_date |-> day]
    ELSE IF last_active = NoDay \/ last_active < yesterday
    THEN [streak EXCEPT !.current_streak = 1, !.last_active_date = day]
    ELSE streak

IncrementStreak ==
    \E user_id \in Members :
        /\ streaks' = [streaks EXCEPT ![user_id] =
                         increment_streak(@, today)]
        /\ UNCHANGED <<today, now, exceptStreak>>

\* Midnight UTC passes.
NextDay ==
    /\ today < MaxDay
    /\ today' = today + 1
    /\ UNCHANGED <<streaks, now, exceptStreak>>

NextStreak == IncrementStreak \/ NextDay

SpecStreak == Init /\ [][NextStreak]_vars

\* ------------------------------------------------------------ register_user
\* Python truth value of user_data.username: None and "" are both false.
username_given(username) == username # NoUsername /\ username # ""

get_by_email(U, email) == \E i \in DOMAIN U : U[i].email = email

get_by_username(U, username) == \E i \in DOMAIN U : U[i].username = username

\* users.email and users.username are unique; NULL usernames do not collide.
unique_constraint_violated(U, email, username) ==
    \/ get_by_email(U, email)
    \/ username # NoUsername /\ get_by_username(U, username)

\* The response of register_user: the three validations, then the insert of
\* the user row (409 from the repository on a unique constraint), then the
\* default currency lookup.
register_outcome(U, email, username, accept_terms, has_currency) ==
    IF ~accept_terms
    THEN Outcome(400, "Terms must be accepted to register")
    ELSE IF get_by_email(U, email)
    THEN Outcome(400, "http_400_email_details")
    ELSE IF username_given(username) /\ get_by_username(U, username)
    THEN Outcome(400, "http_400_username_details")
    ELSE IF unique_constraint_violated(U, email, username)
    THEN Outcome(409, "A record with this value already exists")
    ELSE IF ~has_currency
    THEN Outcome(500, "Default currency not found")
    ELSE Outcome(200, "User registered successfully. Please verify your email.")

\* register_user with one accepted_terms item.  Every create commits, so the
\* user row stays when the currency lookup fails after it.
register_user(email, username, accept_terms, has_currency) ==
    LET out == register_outcome(reg_users, email, username, accept_terms,
                                has_currency)
    IN
    /\ reg_response' = [status  |-> out.status,
                        message |-> out.message,
                        request |-> <<email, username, accept_terms>>]
    /\ reg_users' = IF out.status \in {200, 500}
                    THEN Append(reg_users,
                                [email |-> email, username |-> username])
                    ELSE reg_users
    /\ reg_rows' = IF out.status = 200
                   THEN [t \in RegTables |-> reg_rows[t] + 1]
                   ELSE reg_rows
    /\ UNCHANGED <<now, authVars, rlVars, dataVars, inflight, balVars,
                   laterVars>>

Register == \E email \in Emails, username \in Usernames,
               accept_terms \in BOOLEAN, has_currency \in BOOLEAN :
               register_user(email, username, accept_terms, has_currency)

NextRegister == Register

SpecRegister == Init /\ [][NextRegister]_vars

\* ----------------------------------------------------------- update_balance
\* An UPDATE waits while another transaction holds the lock of the row.
row_lock_ignored(lock) == TRUE
row_lock_free(lock) == lock = NoWorker

\* SET balance = balance + :change_amount, evaluated on the row as committed
\* when the statement gets the lock.
update_statement(row_balance, change_amount) == row_balance + change_amount

\* A caller starts update_balance(account_id, change_amount).
update_balance_call(w, change_amount) ==
    /\ calls[w].pc = "idle"
    /\ calls' = [calls EXCEPT ![w] = [pc            |-> "called",
                                      change_amount |-> change_amount,
                                      written       |-> 0,
                                      overlapped    |-> FALSE]]
    /\ UNCHANGED <<balance, row_lock>>

\* session.exec(statement): the UPDATE runs in the call's transaction.
update_balance_exec(w) ==
    /\ calls[w].pc = "called"
    /\ row_lock_free(row_lock)
    /\ row_lock' = w
    /\ calls' = [v \in Workers |->
                    IF v = w
                    THEN [calls[w] EXCEPT
                            !.pc = "executed",
                            !.written = update_statement(balance,
                                                         calls[w].change_amount)]
                    ELSE IF calls[v].pc = "called"
                    THEN [calls[v] EXCEPT !.overlapped = TRUE]
                    ELSE calls[v]]
    /\ UNCHANGED balance

\* session.commit(): the written balance becomes the row, the lock goes.
update_balance_commit(w) ==
    /\ calls[w].pc = "executed"
    /\ balance' = calls[w].written
    /\ row_lock' = IF row_lock = w THEN NoWorker ELSE row_lock
    /\ calls' = [calls EXCEPT ![w].pc = "committed"]

UpdateBalanceCall == \E w \in Workers, change_amount \in Amounts :
                        /\ update_balance_call(w, change_amount)
                        /\ UNCHANGED <<now, authVars, rlVars, dataVars,
                                       inflight, regVars, laterVars>>

UpdateBalanceExec == \E w \in Workers :
                        /\ update_balance_exec(w)
                        /\ UNCHANGED <<now, authVars, rlVars, dataVars,
                                       inflight, regVars, laterVars>>

UpdateBalanceCommit == \E w \in Workers :
                          /\ update_balance_commit(w)
                          /\ UNCHANGED <<now, authVars, rlVars, dataVars,
                                         inflight, regVars, laterVars>>

NextBalance == UpdateBalanceCall \/ UpdateBalanceExec \/ UpdateBalanceCommit

SpecBalance == Init /\ [][NextBalance]_vars

\* -------------------------------------------------------- TransactionService
\* Everything but the accounts, the transactions and the streaks.
txOthers == <<authVars, rlVars, dataVars, inflight, regVars, balVars, stepVars,
              jwtVars, otpVars>>

\* The checks of create_transaction before it writes.  currency_ok is false
\* for a Cash account without currency_id and for a transfer between
\* accounts of different currencies.
create_transaction_status(A, user_id, account_id, to_account_id, type, currency_ok) ==
    IF ~owned_by(A[account_id], user_id) THEN 404
    ELSE IF type # "Transfer" THEN (IF currency_ok THEN 200 ELSE 400)
    ELSE IF to_account_id = NoAccountId THEN 400
    ELSE IF ~owned_by(A[to_account_id], user_id) THEN 404
    ELSE IF ~currency_ok THEN 400
    ELSE 200

\* AccountRepository.update_balance on the accounts table.
update_balance(A, account_id, change_amount) ==
    [A EXCEPT ![account_id].balance = update_statement(@, change_amount)]

\* The balance updates create_transaction makes for the new row.
apply_transaction(A, account_id, to_account_id, type, amount) ==
    IF type = "Income" THEN update_balance(A, account_id, amount)
    ELSE IF type = "Expense" THEN update_balance(A, account_id, -amount)
    ELSE IF type = "Transfer" /\ to_account_id # NoAccountId
    THEN update_balance(update_balance(A, account_id, -amount),
                        to_account_id, amount)
    ELSE A

create_transaction(user_id, account_id, to_account_id, type, amount, currency_ok) ==
    LET status == create_transaction_status(accounts, user_id, account_id,
                                            to_account_id, type, currency_ok)
        id == tx_created + 1
    IN
    /\ tx_created < MaxTx
    /\ tx_result' = [op |-> "create", status |-> status]
    /\ IF status = 200
       THEN /\ tx_created' = id
            /\ transactions' =
                  [transactions EXCEPT ![id] =
                     [account_id |-> account_id,
                      to_account_id |-> to_account_id,
                      amount |-> amount, type |-> type]]
            /\ accounts' = apply_transaction(accounts, account_id,
                                             to_account_id, type, amount)
            /\ streaks' = [streaks EXCEPT ![user_id] =
                             increment_streak(@, today)]
       ELSE UNCHANGED <<tx_created, transactions, accounts, streaks>>
    /\ UNCHANGED <<opening_balance, account_result>>

\* The checks update_transaction and delete_transaction share.
transaction_access(T, A, user_id, transaction_id) ==
    IF T[transaction_id] = NoTransaction THEN 404
    ELSE IF ~owned_by(A[T[transaction_id].account_id], user_id) THEN 403
    ELSE 200

\* update_transaction: repository.update sets the fields the request
\* carries; no balance is touched.
update_transaction(user_id, transaction_id, amount, type) ==
    LET status == transaction_access(transactions, accounts, user_id,
                                     transaction_id)
    IN
    /\ tx_result' = [op |-> "update", status |-> status]
    /\ transactions' =
          IF status = 200
          THEN [transactions EXCEPT ![transaction_id] =
                  [@ EXCEPT !.amount = IF amount = NoAmount THEN @ ELSE amount,
                            !.type = IF type = NoType THEN @ ELSE type]]
          ELSE transactions
    /\ UNCHANGED <<tx_created, acctVars, streaks>>

\* delete_transaction: repository.delete removes the row; no balance is
\* touched.
delete_transaction(user_id, transaction_id) ==
    LET status == transaction_access(transactions, accounts, user_id,
                                     transaction_id)
    IN
    /\ tx_result' = [op |-> "delete", status |-> status]
    /\ transactions' =
          IF status = 200
          THEN [transactions EXCEPT ![transaction_id] = NoTransaction]
          ELSE transactions
    /\ UNCHANGED <<tx_created, acctVars, streaks>>

\* The user opens an account; the name plays no part in the transactions.
OpenAccount ==
    \E user_id \in Members, account_id \in AccountIds, bal \in Balances :
        /\ create_account(user_id, account_id, "Main", bal)
        /\ UNCHANGED <<now, exceptAcct>>

CreateTransaction ==
    \E user_id \in Members, account_id \in AccountIds,
       type \in TransactionTypes, amount \in TxAmounts,
       currency_ok \in BOOLEAN :
      \E to_account_id \in IF type = "Transfer"
                            THEN AccountIds \cup {NoAccountId}
                            ELSE {NoAccountId} :
        /\ create_transaction(user_id, account_id, to_account_id, type,
                              amount, currency_ok)
        /\ UNCHANGED <<now, today, txOthers>>

UpdateTransaction ==
    \E user_id \in Members, transaction_id \in 1..MaxTx,
       amount \in TxAmounts \cup {NoAmount},
       type \in TransactionTypes \cup {NoType} :
        /\ update_transaction(user_id, transaction_id, amount, type)
        /\ UNCHANGED <<now, today, txOthers>>

DeleteTransaction ==
    \E user_id \in Members, transaction_id \in 1..MaxTx :
        /\ delete_transaction(user_id, transaction_id)
        /\ UNCHANGED <<now, today, txOthers>>

NextTransactions == OpenAccount \/ CreateTransaction \/ UpdateTransaction
                       \/ DeleteTransaction

SpecTransactions == Init /\ [][NextTransactions]_vars

\* The session operations with refresh tokens that live two seconds, so that
\* a token can be rotated in a later second than the login.
InitRotation == InitStore /\ refresh_token_expire = refresh_token_expire_long

SpecRotation == InitRotation /\ [][Next]_vars

\* Logins from three devices: what the session cap needs to be exceeded.
NextCap == TickSecond \/ LoginAnyDevice \/ Logout

SpecCap == Init /\ [][NextCap]_vars

\* A user row is marked deleted: is_deleted is set, deleted_at is stamped or
\* left null.
soft_delete(u, stamped) ==
    /\ ~user_rows[u].is_deleted
    /\ user_rows' = [user_rows EXCEPT ![u] =
                        [is_deleted |-> TRUE,
                         deleted_at |-> IF stamped THEN now ELSE NoTime]]
    /\ UNCHANGED <<now, authVars, rlVars, otherVars>>

SoftDelete == \E u \in Users, stamped \in BOOLEAN : soft_delete(u, stamped)

NextDeleted == TickSecond \/ SoftDelete \/ Login

SpecDeleted == Init /\ [][NextDeleted]_vars

NextLogin == TickSecond \/ LoginCall

SpecLogin == Init /\ [][NextLogin]_vars

\* Token revocation observed at every tick.
NextRevocation == Tick \/ Login \/ Logout

SpecRevocation == Init /\ [][NextRevocation]_vars

\* -------------------------------------------------------------- RateLimiter
Min(a, b) == IF a <= b THEN a ELSE b
Max(a, b) == IF a >= b THEN a ELSE b

\* The Lua script: refill, check, consume.  data is the stored bucket, or a
\* record with exists = FALSE when GET finds no key.
token_bucket_script_uncapped(data, capacity, refill_rate, ts, required, ttl) ==
    LET tokens0  == IF data.exists THEN data.tokens ELSE capacity
        last0    == IF data.exists THEN data.last_refill ELSE ts
        refilled == tokens0 + Max(0, ts - last0) * refill_rate
        allowed  == refilled >= required
        left     == IF allowed THEN refilled - required ELSE refilled
    IN [allowed |-> allowed, tokens |-> left, last_refill |-> ts,
        remaining |-> left, reset |-> ts + ttl]
token_bucket_script(data, capacity, refill_rate, ts, required, ttl) ==
    LET tokens0  == IF data.exists THEN data.tokens ELSE capacity
        last0    == IF data.exists THEN data.last_refill ELSE ts
        elapsed  == Max(0, ts - last0)
        refilled == Min(capacity, tokens0 + elapsed * refill_rate)
        allowed  == refilled >= required
        left     == IF allowed THEN refilled - required ELSE refilled
    IN [allowed |-> allowed, tokens |-> left, last_refill |-> ts,
        remaining |-> left, reset |-> ts + ttl]

\* GET on the bucket key: the key is gone once its EX time has passed.
stored_bucket == IF bucket.exists /\ now < bucket.expires_at
                 THEN bucket
                 ELSE [bucket EXCEPT !.exists = FALSE]

TotalGrants == LET RECURSIVE Sum(_)
                   Sum(t) == IF t < 0 THEN 0 ELSE grants[t] + Sum(t - 1)
               IN Sum(MaxRlSeconds)

\* RateLimit(capacity, refill_rate): a route is registered with its limits.
RateLimit ==
    /\ rl_config.capacity = None
    /\ \E c \in Capacities, r \in RefillRates :
          rl_config' = [capacity |-> c, refill_rate |-> r]
    /\ UNCHANGED <<now, authVars, nonRlVars, cache_state, lua_script, bucket,
                   pending, grants, delayed, rl_result>>

\* lifespan: cache_manager.initialize() succeeds, or raises
\* RedisConnectionError, which lifespan logs before it lets the app serve.
lifespan ==
    /\ cache_state = "new"
    /\ cache_state' \in {"initialized", "unreachable"}
    /\ UNCHANGED <<now, authVars, nonRlVars, lua_script, rl_config, bucket,
                   pending, grants, delayed, rl_result>>

\* TokenBucketRateLimiter.initialize: registers the script on the client that
\* cache_manager.initialize() created (before its ping).
initialize ==
    /\ cache_state # "new"
    /\ ~lua_script
    /\ lua_script' = TRUE
    /\ UNCHANGED <<now, authVars, nonRlVars, cache_state, rl_config, bucket,
                   pending, grants, delayed, rl_result>>

Raised(kind) == [kind |-> kind, allowed |-> FALSE, remaining |-> 0, reset |-> 0]

\* allow_request up to the script call: _check_initialized, the assert on
\* lua_script, then now = time.time(), sent as int(now).
allow_request_start(state, script) ==
    IF state # "initialized" THEN "RuntimeError"
    ELSE IF ~script THEN "AssertionError"
    ELSE "ready"

allow_request_begin(c) ==
    LET start == allow_request_start(cache_state, lua_script) IN
    /\ cache_state # "new"
    /\ rl_config.capacity # None
    /\ pending[c] = NoTime
    /\ TotalGrants < MaxGrants
    /\ IF start = "ready"
       THEN /\ pending' = [pending EXCEPT ![c] = WholeSeconds(now)]
            /\ UNCHANGED rl_result
       ELSE /\ rl_result' = Raised(start)
            /\ UNCHANGED pending
    /\ UNCHANGED <<now, authVars, nonRlVars, cache_state, lua_script, rl_config,
                   bucket, grants, delayed>>

\* The script call reaches the store and runs there atomically.
allow_request_script(c) ==
    LET ts == pending[c]
        r  == token_bucket_script(stored_bucket, rl_config.capacity,
                                  rl_config.refill_rate, ts, 1, REDIS_CACHE_TTL)
    IN
    /\ ts # NoTime
    /\ bucket' = [exists      |-> TRUE,
                  tokens      |-> r.tokens,
                  last_refill |-> r.last_refill,
                  expires_at  |-> now + SecondsToTicks(REDIS_CACHE_TTL)]
    /\ grants' = IF r.allowed
                 THEN [grants EXCEPT ![WholeSeconds(now)] = @ + 1]
                 ELSE grants
    /\ delayed' = (delayed \/ ts < WholeSeconds(now))
    /\ rl_result' = [kind |-> "script", allowed |-> r.allowed,
                     remaining |-> r.remaining, reset |-> r.reset]
    /\ pending' = [pending EXCEPT ![c] = NoTime]
    /\ UNCHANGED <<now, authVars, nonRlVars, cache_state, lua_script, rl_config>>

\* The script call raises (store unreachable, timeout): fail open.
allow_request_fail_open(c) ==
    /\ pending[c] # NoTime
    /\ rl_result' = [kind |-> "fail_open", allowed |-> TRUE,
                     remaining |-> rl_config.capacity,
                     reset |-> pending[c] + REDIS_CACHE_TTL]
    /\ pending' = [pending EXCEPT ![c] = NoTime]
    /\ UNCHANGED <<now, authVars, nonRlVars, cache_state, lua_script, rl_config,
                   bucket, grants, delayed>>

RlTick ==
    /\ WholeSeconds(now) < MaxRlSeconds
    /\ now' = SecondsToTicks(WholeSeconds(now) + 1)
    /\ UNCHANGED <<authVars, nonAuthVars>>

AllowRequestBegin == \E c \in Callers : allow_request_begin(c)
AllowRequestScript == \E c \in Callers : allow_request_script(c)
AllowRequestFailOpen == \E c \in Callers : allow_request_fail_open(c)

NextRateLimit ==
    \/ RlTick \/ RateLimit \/ lifespan \/ initialize
    \/ AllowRequestBegin \/ AllowRequestScript \/ AllowRequestFailOpen

SpecRateLimit == Init /\ [][NextRateLimit]_vars

\* ================================================================== claims
SessionErrors == {"Invalid or expired refresh token",
                  "Refresh token session expired or revoked"}

ActiveOnDevice(S, u, d) ==
    {i \in DOMAIN S : S[i].user_id = u /\ S[i].device_id = d /\ S[i].is_active}

RefreshNow(token) == refresh_outcome(sessions, tokens, blacklist, token, now)

\* C1: a user's sessions with is_active and expires_at > now never number more
\* than MAX_SESSIONS_PER_USER.
C1_LiveSessionsWithinCap ==
    \A u \in Users :
        count_active_sessions(sessions, u, now) <= MAX_SESSIONS_PER_USER

\* C2: every (user, device) pair has at most one session with is_active, and a
\* login from a device leaves the new session as the only active one of that
\* device (every earlier session of the device is inactive).
C2_OneActiveSessionPerDevice ==
    [][ /\ \A u \in Users, d \in Devices :
              Cardinality(ActiveOnDevice(sessions', u, d)) <= 1
        /\ Len(sessions') = Len(sessions) + 1 =>
              LET s == sessions'[Len(sessions')]
              IN ActiveOnDevice(sessions', s.user_id, s.device_id)
                    = {Len(sessions')} ]_vars

C2_Witness ==
    \E i, k \in DOMAIN sessions :
        /\ i < k
        /\ sessions[i].device_id = sessions[k].device_id
        /\ ~sessions[i].is_active
        /\ sessions[k].is_active
        /\ ActiveOnDevice(sessions, sessions[k].user_id, sessions[k].device_id)
              = {k}

\* C3: a refresh presenting a token that was ever bound to a session that is
\* now inactive fails with 401 and leaves the token and session tables as they
\* are; a refresh succeeds only if a session with that jti, is_active and
\* expires_at > now exists.
C3_RefreshNeedsLiveSession ==
    \A tok \in DOMAIN tokens, rotate \in BOOLEAN :
        LET e    == refresh_effect(sessions, tokens, blacklist, tok, rotate, now)
            dead == \E p \in ever_bound :
                       p[2] = tok /\ ~sessions[p[1]].is_active
        IN /\ dead => /\ e.outcome.status = 401
                      /\ e.tokens = tokens
                      /\ e.sessions = sessions
           /\ e.outcome.status = 200 =>
                 \E i \in DOMAIN sessions :
                    /\ sessions[i].refresh_token_jti = extract_jti(tok)
                    /\ IsLive(sessions[i], now)

\* A session revoked by logout, one evicted or replaced by a login, and a
\* token rotated away before its session was revoked.
C3_Witness ==
    /\ \E p \in ever_bound :
          /\ ~sessions[p[1]].is_active
          /\ sessions[p[1]].refresh_token_jti = p[2]
    /\ \E p \in ever_bound :
          /\ ~sessions[p[1]].is_active
          /\ sessions[p[1]].refresh_token_jti = None
    /\ \E tok \in DOMAIN tokens : RefreshNow(tok).status = 200

\* C4: once blacklist_refresh_token has returned for a token, verify_token
\* rejects it as revoked at every instant before the token expires, and the
\* blacklist key does not outlive the token.
C4_BlacklistedUntilExpiry ==
    \A tok \in blacklist_returned :
        /\ ~TokenExpired(tokens, tok, now) =>
              verify_token(tokens, blacklist, tok, "refresh", now)
                 = "Token has been revoked"
        /\ blacklist[tok] <= SecondsToTicks(tokens[tok].exp)

\* C5: after logout_user with a token, refresh_tokens with the same token fails
\* with "Token has been revoked".
C5_RefreshAfterLogoutIsRevokedToken ==
    \A tok \in blacklist_returned :
        RefreshNow(tok) = [status |-> 401, message |-> "Token has been revoked"]

\* C5 as amended: after logout_user with a token, refresh_tokens with the same
\* token fails with 401 "Invalid or expired refresh token", raised by the
\* session lookup; the blacklist check is not reached.
C5_RefreshAfterLogoutFailsAtSessionLookup ==
    \A tok \in blacklist_returned :
        RefreshNow(tok) =
            [status |-> 401, message |-> "Invalid or expired refresh token"]

\* A logout that revoked a live session and blacklisted its token, with the
\* token still unexpired.
C5_Witness ==
    \E tok \in blacklist_returned :
        /\ \E i \in DOMAIN sessions :
              /\ sessions[i].refresh_token_jti = tok
              /\ ~sessions[i].is_active
              /\ sessions[i].last_used_at # NoTime
        /\ is_token_blacklisted(blacklist, tok, now)
        /\ ~TokenExpired(tokens, tok, now)

\* C6: a successful rotating refresh returns a refresh token other than the
\* one presented, the session then stores the new token's jti, no active
\* session stores the old jti, and from then on a refresh with the old token
\* fails at the session lookup.
C6_RotationReplacesJti ==
    /\ \A tok \in DOMAIN tokens :
          LET e == refresh_effect(sessions, tokens, blacklist, tok, TRUE, now)
              i == get_active_by_jti(sessions, extract_jti(tok), now)
          IN e.outcome.status = 200 =>
               /\ e.refresh_token # tok
               /\ e.sessions[i].refresh_token_jti = extract_jti(e.refresh_token)
               /\ \A k \in DOMAIN e.sessions :
                     e.sessions[k].is_active =>
                        e.sessions[k].refresh_token_jti # extract_jti(tok)
               /\ refresh_outcome(e.sessions, e.tokens, blacklist, tok, now).status
                     = 401
               /\ refresh_outcome(e.sessions, e.tokens, blacklist, tok, now).message
                     \in SessionErrors
    /\ \A p \in ever_bound :
          sessions[p[1]].refresh_token_jti # p[2] =>
             /\ \A k \in DOMAIN sessions :
                   sessions[k].is_active => sessions[k].refresh_token_jti # p[2]
             /\ RefreshNow(p[2]).status = 401
             /\ RefreshNow(p[2]).message \in SessionErrors

\* A session that is active after a rotation replaced its first jti.
C6_Witness ==
    \E p \in ever_bound :
        /\ sessions[p[1]].is_active
        /\ sessions[p[1]].refresh_token_jti > p[2]
        /\ sessions[p[1]].last_used_at # NoTime

\* C10: a failed login has one outcome, that of an unknown identifier, whether
\* the identifier matched no user or the password was wrong.
C10_LoginFailuresIndistinguishable ==
    response.status \in {400, 401} =>
        \A m \in SigninCredentialsDetails :
            response = login_outcome("nobody", "bad", m)

\* Calls the script has allowed in the seconds a..b.
GrantsIn(a, b) ==
    LET RECURSIVE Sum(_)
        Sum(t) == IF t < a THEN 0 ELSE grants[t] + Sum(t - 1)
    IN Sum(b)

\* C7: whatever the order in which concurrent calls reach the store, the calls
\* granted between two instants t0 <= t1 number at most
\* capacity + (t1 - t0) * refill_rate.
C7_NoDoubleSpend ==
    rl_config.capacity # None =>
        \A a, b \in 0..MaxRlSeconds :
            a <= b => GrantsIn(a, b) <=
                         rl_config.capacity + (b - a) * rl_config.refill_rate

C9_FailsOpen ==
    /\ rl_result.kind \in {"none", "script", "fail_open"}
    /\ rl_result.kind = "fail_open" =>
          /\ rl_result.allowed
          /\ rl_result.remaining = rl_config.capacity

\* The rows of a table that belong to user u.
RowsOf(table, u) == SelectSeq(table, LAMBDA r : r.user_id = u)

\* C11: for a user with is_deleted = true, whatever deleted_at is,
\* check_deleted_user raises, and no step creates a device, session, security
\* event or token for that user.
C11_DeletedUserCannotLogin ==
    [][ \A u \in Users :
          user_rows[u].is_deleted =>
             /\ check_deleted_user(user_rows[u], now) # "ok"
             /\ RowsOf(sessions', u) = RowsOf(sessions, u)
             /\ RowsOf(security_events', u) = RowsOf(security_events, u)
             /\ RowsOf(tokens', u) = RowsOf(tokens, u)
             /\ \A d \in AllDevices :
                   <<u, d>> \in DOMAIN devices' => <<u, d>> \in DOMAIN devices
      ]_vars

\* The sessions of user u counted as active at t.
LiveOf(S, u, t) == {i \in DOMAIN S : S[i].user_id = u /\ IsLive(S[i], t)}

\* C12: when a user with MAX_SESSIONS_PER_USER active sessions logs in from a
\* device that has no active session, the login succeeds, the sessions that
\* become inactive are exactly the excess oldest of those counted as active,
\* and right after the login the user has MAX_SESSIONS_PER_USER active sessions.
C12_EvictsOldestDownToCap ==
    [][ \A u \in Users, d \in AllDevices :
          (/\ ~user_rows[u].is_deleted
           /\ count_active_sessions(sessions, u, now) = MAX_SESSIONS_PER_USER
           /\ ActiveOnDevice(sessions, u, d) = {}) =>
             /\ login_result(u, "good", d, "").status = 200
             /\ (/\ Len(sessions') = Len(sessions) + 1
                 /\ sessions'[Len(sessions')].user_id = u
                 /\ sessions'[Len(sessions')].device_id = d) =>
                   LET live   == LiveOf(sessions, u, now)
                       excess == (Cardinality(live) + 1) - MAX_SESSIONS_PER_USER
                       oldest == {i \in live :
                                    Cardinality({k \in live :
                                        OlderThan(sessions, k, i)}) < excess}
                       became == {i \in DOMAIN sessions :
                                    /\ sessions[i].is_active
                                    /\ ~sessions'[i].is_active}
                   IN /\ became = oldest
                      /\ count_active_sessions(sessions', u, now)
                            = MAX_SESSIONS_PER_USER
      ]_vars

\* The new_device_login events recorded for user u.
NewDeviceEvents(E, u) ==
    SelectSeq(E, LAMBDA e : e.user_id = u /\ e.event_type = "new_device_login")

\* A step in which a login of user u from device d went through: it appended
\* the session of that login.
LoginSucceeded(u, d) ==
    /\ Len(sessions') = Len(sessions) + 1
    /\ sessions'[Len(sessions')].user_id = u
    /\ sessions'[Len(sessions')].device_id = d

\* C13: a successful login from a device never seen for the user creates the
\* device untrusted, records exactly one new_device_login event and returns
\* requires_device_verification = true; a login from a known device creates
\* no device and no new_device_login event.
C13_NewDeviceLogin ==
    [][ \A u \in Users, d \in AllDevices :
          LoginSucceeded(u, d) =>
            IF <<u, d>> \notin DOMAIN devices
            THEN /\ <<u, d>> \in DOMAIN devices'
                 /\ DOMAIN devices' = DOMAIN devices \cup {<<u, d>>}
                 /\ devices'[<<u, d>>].is_trusted = FALSE
                 /\ devices'[<<u, d>>].rows = 1
                 /\ Len(NewDeviceEvents(security_events', u))
                       = Len(NewDeviceEvents(security_events, u)) + 1
                 /\ requires_device_verification(devices', <<u, d>>)
            ELSE /\ DOMAIN devices' = DOMAIN devices
                 /\ devices'[<<u, d>>].rows = devices[<<u, d>>].rows
                 /\ NewDeviceEvents(security_events', u)
                       = NewDeviceEvents(security_events, u)
      ]_vars

\* C13 witness: a login from the never-seen device d2 went through and left
\* its device and its event, and a login from the known device d1 went
\* through as well.
C13_Witness ==
    /\ \E i \in DOMAIN sessions : sessions[i].device_id = "d2"
    /\ \E i \in DOMAIN sessions : sessions[i].device_id = RegistrationDevice
    /\ <<"u1", "d2">> \in DOMAIN devices
    /\ Len(NewDeviceEvents(security_events, "u1")) = 1

\* A step in which the script call of caller c, stamped in the current second,
\* ran in the store.
ScriptRan(c) ==
    /\ pending[c] = WholeSeconds(now)
    /\ pending'[c] = NoTime
    /\ rl_result'.kind = "script"

\* The whole seconds after which a bucket refilled at refill_rate holds one
\* token again.
RefillWait(refill_rate) ==
    CHOOSE w \in 1..(MaxRlSeconds + 1) :
        /\ w * refill_rate >= 1
        /\ \A v \in 1..(w - 1) : v * refill_rate < 1

\* C14: from a full or absent bucket, capacity calls of cost 1 at one instant
\* are all allowed, the next call at that instant is rejected, and the reset
\* it returns is the time at which one token will have refilled.
C14_BurstThenResetAtRefill ==
    [][ \A c \in Callers :
          (ScriptRan(c) /\ ~delayed') =>
            LET ts       == pending[c]
                b        == stored_bucket
                capacity == rl_config.capacity
                before   == grants[ts]
                level    == IF b.exists
                            THEN Min(capacity, b.tokens + Max(0, ts - b.last_refill)
                                                 * rl_config.refill_rate)
                            ELSE capacity
            IN (level = capacity - before) =>
                  /\ before < capacity => rl_result'.allowed
                  /\ before = capacity =>
                        /\ ~rl_result'.allowed
                        /\ rl_result'.reset
                              = ts + RefillWait(rl_config.refill_rate)
      ]_vars

\* C15: for a refresh token that has not expired, logout_user succeeds, a
\* second logout_user leaves the state the first one left, and that state has
\* no active session for the token's jti and has the jti blacklisted, whether
\* or not an active session matched.
C15_LogoutIdempotent ==
    \A tok \in DOMAIN tokens :
        ~TokenExpired(tokens, tok, now) =>
            LET S1 == logout_session(sessions, tok, now)
                B1 == blacklist_refresh_token(tokens, blacklist, tok, now)
                S2 == logout_session(S1, tok, now)
                B2 == blacklist_refresh_token(tokens, B1, tok, now)
            IN /\ logout_outcome(tokens, tok, now).status = 200
               /\ S2 = S1
               /\ B2 = B1
               /\ get_active_by_jti(S1, extract_jti(tok), now) = None
               /\ is_token_blacklisted(B1, extract_jti(tok), now)

\* C16: every session that is not active has its refresh_token_jti cleared,
\* whichever path made it inactive.
C16_InactiveSessionHasNoJti ==
    \A i \in DOMAIN sessions :
        ~sessions[i].is_active => sessions[i].refresh_token_jti = None

\* C17: a session only goes from active to revoked: no step makes an inactive
\* session active again, and no step removes or replaces a session row.
C17_RevokedIsTerminal ==
    [][ /\ Len(sessions') >= Len(sessions)
        /\ \A i \in DOMAIN sessions :
              /\ sessions'[i].user_id = sessions[i].user_id
              /\ sessions'[i].device_id = sessions[i].device_id
              /\ sessions'[i].created_at = sessions[i].created_at
              /\ ~sessions[i].is_active => ~sessions'[i].is_active
      ]_vars

\* C17 witness: a revoked session is still stored next to a later session of
\* the same device, after a request with an access token was answered.
C17_Witness ==
    /\ response.message = "Session expired or revoked"
    /\ \E i, k \in DOMAIN sessions :
          /\ i < k
          /\ sessions[i].device_id = sessions[k].device_id
          /\ ~sessions[i].is_active
          /\ sessions[k].is_active

\* C18: there is at most one user_devices row per (user_id, device_id) pair,
\* also when two requests for the same user and device run concurrently.
C18_OneDeviceRowPerPair ==
    \A k \in DOMAIN devices : devices[k].rows <= 1

\* The request of the register_user call that made this step.
Registered(email, username, accept_terms) ==
    /\ reg_response'.request = <<email, username, accept_terms>>
    /\ <<reg_users', reg_rows', reg_response'>>
          # <<reg_users, reg_rows, reg_response>>

\* C19: register_user with accept_terms = false, with an email that belongs to
\* a user or with a username that belongs to a user fails with status 400 and
\* creates no record in any table.
C19_RejectedRegistrationChangesNothing ==
    [][ \A email \in Emails, username \in Usernames, accept_terms \in BOOLEAN :
          (/\ Registered(email, username, accept_terms)
           /\ \/ ~accept_terms
              \/ get_by_email(reg_users, email)
              \/ username # NoUsername /\ get_by_username(reg_users, username))
          => /\ reg_response'.status = 400
             /\ reg_users' = reg_users
             /\ reg_rows' = reg_rows
      ]_vars

\* The sum of the amounts of the update_balance calls in W.
SumOfAmounts(W) ==
    LET RECURSIVE Sum(_)
        Sum(X) == IF X = {} THEN 0
                  ELSE LET w == CHOOSE w \in X : TRUE
                       IN calls[w].change_amount + Sum(X \ {w})
    IN Sum(W)

Committed == {w \in Workers : calls[w].pc = "committed"}

\* C20: whatever the interleaving of concurrent update_balance calls, once
\* none of them is running the balance is the original balance plus the
\* amounts of all the calls that were made: no update is lost.
C20_NoLostUpdate ==
    (\A w \in Workers : calls[w].pc \in {"idle", "committed"}) =>
        balance = OriginalBalance + SumOfAmounts(Committed)

\* C20 witness: three calls have all committed, at least two of them were in
\* flight together, and the balance has moved by their sum.
C20_Witness ==
    /\ Committed = Workers
    /\ \E w \in Workers : calls[w].overlapped
    /\ \A w \in Workers : calls[w].change_amount # 0
    /\ balance = OriginalBalance + SumOfAmounts(Workers)

\* The sessions of user u that a login made inactive in this step: logins
\* clear the jti of what they revoke, logout does not.
RevokedByLogin(u) ==
    {i \in DOMAIN sessions :
        /\ sessions[i].user_id = u
        /\ sessions[i].is_active
        /\ ~sessions'[i].is_active
        /\ sessions'[i].refresh_token_jti = None}

\* The security events appended in this step.
NewEvents ==
    SubSeq(security_events', Len(security_events) + 1, Len(security_events'))

\* C22: a login that revokes sessions completes by creating its session, and
\* when it evicted sessions of other devices for the cap it records exactly
\* one session_invalidated event that carries the number of sessions evicted;
\* no login ends with sessions revoked and no new session.
C22_EvictionThenSession ==
    [][ \A u \in Users :
          RevokedByLogin(u) # {} =>
            /\ Len(sessions') = Len(sessions) + 1
            /\ sessions'[Len(sessions')].user_id = u
            /\ sessions'[Len(sessions')].is_active
            /\ LET d        == sessions'[Len(sessions')].device_id
                   evicted  == {i \in RevokedByLogin(u) :
                                   sessions[i].device_id # d}
                   recorded == SelectSeq(NewEvents, LAMBDA e :
                                   /\ e.user_id = u
                                   /\ e.event_type = "session_invalidated")
               IN evicted # {} =>
                     /\ Len(recorded) = 1
                     /\ recorded[1].evicted_sessions = Cardinality(evicted)
      ]_vars

\* C23: once concurrent login_user requests of a user have all completed, the
\* user has at most MAX_SESSIONS_PER_USER active sessions and at most one
\* active session per device.
C23_ConcurrentLoginsKeepCap ==
    (\A r \in Requests : login_steps[r].pc = "idle") =>
        \A u \in Users :
            /\ count_active_sessions(sessions, u, now) <= MAX_SESSIONS_PER_USER
            /\ \A d \in Devices :
                  Cardinality(ActiveOnDevice(sessions, u, d)) <= 1

\* A step in which the script call of caller c ran in the store.
ScriptStep(c) ==
    /\ pending[c] # NoTime
    /\ pending'[c] = NoTime
    /\ rl_result'.kind = "script"

\* The token count of bucket b after the refill up to ts.
Refilled(b, ts) ==
    IF b.exists
    THEN Min(rl_config.capacity,
             b.tokens + Max(0, ts - b.last_refill) * rl_config.refill_rate)
    ELSE rl_config.capacity

\* C24: after every allow_request the bucket holds between 0 and capacity
\* tokens; the call is allowed exactly when the count after the refill is at
\* least the cost (1) and then takes exactly the cost; a rejected call leaves
\* the refilled count.
C24_BucketStaysInRange ==
    [][ \A c \in Callers :
          ScriptStep(c) =>
            LET level == Refilled(stored_bucket, pending[c])
            IN /\ bucket'.tokens >= 0
               /\ bucket'.tokens <= rl_config.capacity
               /\ rl_result'.allowed <=> level >= 1
               /\ rl_result'.allowed => bucket'.tokens = level - 1
               /\ ~rl_result'.allowed => bucket'.tokens = level
      ]_vars

\* C24 witness: a call was rejected on an empty bucket, after the calls that
\* emptied it had been allowed.
C24_Witness ==
    /\ rl_result.kind = "script"
    /\ ~rl_result.allowed
    /\ bucket.exists
    /\ bucket.tokens = 0
    /\ TotalGrants >= rl_config.capacity

\* C25: while the session of a login is active and unexpired, a request that
\* carries the access token issued with one of the session's refresh tokens
\* passes the session validation of get_current_active_user.
C25_AccessTokenAuthenticates ==
    \A p \in ever_bound :
        IsLive(sessions[p[1]], now) =>
            get_current_active_user_outcome(sessions, access_jti(p[2]),
                                            now).status = 200

\* Refresh tokens that a rotation, not the login, bound to their session.
Rotated == {p \in ever_bound : \E q \in ever_bound : q[1] = p[1] /\ q[2] < p[2]}

\* C26: a refresh token returned by a rotating refresh can be used for a
\* successful refresh at every instant before its own expiry, as long as its
\* session is not revoked and the user has not logged out with it.
C26_RotatedTokenRefreshable ==
    \A p \in Rotated :
        (/\ sessions[p[1]].is_active
         /\ sessions[p[1]].refresh_token_jti = extract_jti(p[2])
         /\ p[2] \notin blacklist_returned) =>
            \A t \in now..(SecondsToTicks(extract_exp(tokens, p[2])) - 1) :
                refresh_outcome(sessions, tokens, blacklist, p[2], t).status
                    = 200

\* C27: a member's password changes only in a reset_password call whose token
\* identifies a stored (not yet consumed) password_reset OTP of that member
\* that has not passed its expires_at.
C27_ResetNeedsValidOtp ==
    [][ \A u \in Members :
          password_changes'[u] # password_changes[u] =>
            LET otp == otps[reset_result'.token]
            IN /\ otp # NoOtp
               /\ otp.user_id = u
               /\ otp.type = "password_reset"
               /\ otp.expires_at > now
      ]_vars

\* C28: when register_user raises after its validations (the request was
\* neither rejected with 400 nor with 409), no user with the submitted email
\* or username remains stored, so the same registration can be retried.
C28_FailedRegistrationLeavesNoUser ==
    [][ \A email \in Emails, username \in Usernames, accept_terms \in BOOLEAN :
          (/\ Registered(email, username, accept_terms)
           /\ reg_response'.status \notin {200, 400, 409})
          => /\ ~get_by_email(reg_users', email)
             /\ username_given(username) => ~get_by_username(reg_users', username)
      ]_vars

\* The last AccountService call was a get, update or delete of an account
\* that exists and belongs to another user than the caller.
ForeignCall(r, A) ==
    /\ r.op \in {"get", "update", "delete"}
    /\ A[r.account_id] # NoAccount
    /\ A[r.account_id].user_id # r.user_id

\* C21: an account get, update or delete issued with a user_id that is not the
\* account's owner fails (404 from the service, False from delete_for_user)
\* and leaves the account row and its balance unchanged.
C21_ForeignAccountUntouched ==
    [][ (/\ <<accounts', account_result'>> # <<accounts, account_result>>
         /\ ForeignCall(account_result', accounts))
        => /\ account_result'.status = 404
           /\ accounts' = accounts
           /\ ~delete_for_user(accounts, account_result'.user_id,
                               account_result'.account_id).deleted
      ]_vars

\* A call on another user's account was answered with 404.
C21_Witness ==
    /\ ForeignCall(account_result, accounts)
    /\ account_result.status = 404
    /\ accounts[account_result.account_id].balance = 1

\* C30: starting from the streak row created at registration, after any
\* sequence of increment_streak calls on any days, longest_streak >=
\* current_streak >= 0 holds and longest_streak never decreases.
C30_LongestBoundsCurrent ==
    [][ \A u \in Members :
          /\ streaks'[u].longest_streak >= streaks'[u].current_streak
          /\ streaks'[u].current_streak >= 0
          /\ streaks'[u].longest_streak >= streaks[u].longest_streak
      ]_vars

\* What the transaction row tx contributes to the balance of account a:
\* income and incoming transfers positive, expenses and outgoing transfers
\* negative.
SignedAmount(tx, a) ==
    IF tx = NoTransaction THEN 0
    ELSE (IF tx.type = "Income" /\ tx.account_id = a THEN tx.amount ELSE 0)
       + (IF tx.type = "Expense" /\ tx.account_id = a THEN -tx.amount ELSE 0)
       + (IF tx.type = "Transfer" /\ tx.account_id = a THEN -tx.amount ELSE 0)
       + (IF tx.type = "Transfer" /\ tx.to_account_id = a THEN tx.amount ELSE 0)

\* The signed sum of the transactions that currently exist for account a.
SignedSum(a) ==
    LET RECURSIVE Sum(_)
        Sum(k) == IF k = 0 THEN 0
                  ELSE SignedAmount(transactions[k], a) + Sum(k - 1)
    IN Sum(MaxTx)

\* C29: after any sequence of create, update and delete transaction
\* operations, each account's balance equals its opening balance plus the
\* signed sum of the transactions that currently exist for it.
C29_BalanceMatchesTransactions ==
    \A a \in AccountIds :
        accounts[a] # NoAccount =>
            accounts[a].balance = opening_balance[a] + SignedSum(a)
====
